---------------------------- MODULE Spec2Model ----------------------------
(***************************************************************************)
(* Verification model of the Taipei City Dashboard data pipelines:         *)
(*   - the Load-Behavior Executor, dags/utils/load_stage.py                *)
(*     (save_dataframe_to_postgresql, save_geodataframe_to_postgresql);    *)
(*   - the Geometry Normalizer, dags/utils/transform_geometry.py, as it is *)
(*     used by the pipelines under dags/proj_city_dashboard.               *)
(*                                                                         *)
(* The relational sink is modelled by the committed contents of            *)
(* default_table and history_table plus the open connection's transaction  *)
(* view: a statement executed on the connection changes the view only, and *)
(* conn.commit() (load_stage.py:73, :185) publishes it.                    *)
(***************************************************************************)
EXTENDS Integers, Sequences, FiniteSets, TLC

\* ------------------------------------------------------------------ bounds
\* longest dataset handed to one save call
MaxData == 2
\* longest table contents explored (a call is started only if its rows fit)
MaxTable == 3

\* the row values datasets and tables are made of
Rows == {"r1", "r2"}

RECURSIVE SeqsUpTo(_, _)
SeqsUpTo(S, n) ==
    IF n = 0 THEN {<<>>}
    ELSE LET shorter == SeqsUpTo(S, n - 1)
         IN  shorter \cup {Append(s, x) : s \in {t \in shorter : Len(t) = n - 1}, x \in S}

Datasets == SeqsUpTo(Rows, MaxData)

Prefix(s, k) == SubSeq(s, 1, k)

IsPrefixOf(s, t) == Len(s) <= Len(t) /\ Prefix(t, Len(s)) = s

\* ------------------------------------------------- load_stage.py: inputs
\* load_behavior values tried: the three documented ones and one other.
LoadBehaviors == {"append", "replace", "current+history", "upsert"}

\* history_table argument: the default None, the empty string, a real name.
HistoryTableArgs == {"None", "", "history_table"}

\* geometry_type values tried: members of white_list, a shape that is not a
\* geometry family, and a spelling taken from the docstring.
GeometryTypeArgs == {"MultiPolygon", "Circle", "POINT"}

\* what save_dataframe_to_postgresql can be handed as `data`: its Python type
\* and its column names
DataShapes == {[type |-> "DataFrame",    columns |-> {"data_time"}],
               [type |-> "DataFrame",    columns |-> {"data_time", "wkb_geometry"}],
               [type |-> "DataFrame",    columns |-> {"data_time", "geometry"}],
               [type |-> "GeoDataFrame", columns |-> {"data_time", "geometry"}]}

\* what the pipelines hand to save_geodataframe_to_postgresql: the selected
\* columns of the transformed frame, `wkb_geometry` among them
GeoDataShape == [type |-> "DataFrame", columns |-> {"data_time", "wkb_geometry"}]

Functions == {"save_dataframe_to_postgresql", "save_geodataframe_to_postgresql"}

\* ------------------------------------------------- load_stage.py: helpers
\* load_stage.py:121-130
white_list == {"Point", "LineString", "Polygon", "MultiPoint", "MultiLineString",
               "MultiPolygon", "LineStringZ", "MultiLineStringZ"}

\* mutant: the geometry type is not checked
GeometryTypeUnchecked(geometry_type) == TRUE

\* load_stage.py:131  `geometry_type not in white_list` is the negation
GeometryTypeInWhiteList(geometry_type) == geometry_type \in white_list

\* mutant: only the `wkb_geometry` column name is looked for
OnlyWkbColumnChecked(cols) == "wkb_geometry" \in cols

\* load_stage.py:35-36  any(data.columns.isin(["wkb_geometry", "geometry"]))
is_column_include_geometry(cols) == cols \cap {"wkb_geometry", "geometry"} # {}

\* mutant: an unknown load_behavior falls through to the append branch
BranchFallsThroughToAppend(lb) ==
    IF lb \in {"replace", "current+history"} THEN lb ELSE "append"

\* mutant: current+history is handled by the replace branch
HistoryBranchAsReplace(lb) ==
    IF lb = "append" THEN "append"
    ELSE IF lb \in {"replace", "current+history"} THEN "replace"
    ELSE "else"

\* load_stage.py:48-72 / :140-184  the if / elif / else chain on load_behavior
BehaviorBranch(lb) ==
    IF lb = "append" THEN "append"
    ELSE IF lb = "replace" THEN "replace"
    ELSE IF lb = "current+history" THEN "current+history"
    ELSE "else"

\* load_stage.py:58 (`history_table is None`) and
\* load_stage.py:160 (`(history_table is None) or (history_table == "")`)
HistoryTableMissing(fn, ht) ==
    IF fn = "save_dataframe_to_postgresql" THEN ht = "None"
    ELSE ht = "None" \/ ht = ""

\* mutant: TRUNCATE leaves the rows in place
TruncateKeepsRows(table) == table

\* load_stage.py:53, :62, :150, :164   TRUNCATE TABLE {default_table}
TruncateTable(table) == <<>>

\* mutant: to_sql with if_exists="replace"
ToSqlReplaces(table, data) == data

\* mutant: rows the table already ends with are not inserted again
ToSqlOnlyNewRows(table, data) ==
    IF Len(data) <= Len(table) /\ SubSeq(table, Len(table) - Len(data) + 1, Len(table)) = data
    THEN table ELSE table \o data

\* load_stage.py:49, :54, :63, :66 (and :141, :151, :165, :173)
\* DataFrame.to_sql(..., if_exists="append"): the rows are added after the
\* rows the table holds.
ToSqlAppend(table, data) == table \o data

\* mutant: every statement is committed as soon as it is executed
StatementAutocommits(committed, view) == view

\* load_stage.py:47-73  statements run on `conn` inside the transaction the
\* connection began; the committed contents stay as they are until
\* conn.commit().
CommittedAfterStatement(committed, view) == committed

\* ------------------------------------------------------------------ state
VARIABLES
    sink,        \* committed contents: [default_table, history_table]
    txn,         \* the open connection's view of the two tables
    conn,        \* "none", "open", "closed": the object engine.connect() returned
    args,        \* the arguments of the save call in progress
    pc,          \* position inside the save call
    statements,  \* statements the call has issued on the connection, in order
    error,       \* "none", "ValueError", "SinkError": what the call raised
    pre,         \* the committed contents when the call was made
    prior,       \* the committed contents before the first modelled run
    snapshots    \* datasets of the completed current+history runs, concatenated

load_vars == <<sink, txn, conn, args, pc, statements, error, pre, prior, snapshots>>

\* state of a pipeline script (dags/proj_city_dashboard)
VARIABLES
    pipeline,    \* the pipeline script being run
    stage,       \* "start", "extracted", "transformed", "handed", "failed"
    raw,         \* the geometry (or x/y) column of the extracted data
    gdata,       \* the transformed frame: [geometry, wkb_geometry]
    handed       \* the arguments given to save_geodataframe_to_postgresql

pipe_vars == <<pipeline, stage, raw, gdata, handed>>

\* state of one call of a geometry converter (dags/utils/transform_geometry.py)
VARIABLES
    geo_pc,      \* "idle", "called", "returned", "reapplied"
    geo_fn,      \* the converter called
    geo_in,      \* its argument
    geo_out,     \* [raised, value]: what the call raised or returned
    geo_again,   \* [raised, value]: the converter applied to its own result
    iterable     \* whether the shapely the call runs on lets `for ap in geo`
                 \* run over a MultiPolygon (1.x) or raises TypeError (2.x)

geo_vars == <<geo_pc, geo_fn, geo_in, geo_out, geo_again, iterable>>

\* state of the Extract block of one pipeline run, request by request
\* (dags/utils/extract_stage.py and the scripts' own requests)
VARIABLES
    fetch_pipeline,  \* the script that runs
    fetch_pc,        \* "start", "extract", "transform", "load", "published", "failed"
    fetch_todo,      \* the requests the Extract block still has to make
    fetch_log,       \* the responses received so far, in order
    fetch_count,     \* data_dict["result"]["count"] of get_data_taipei_api
    fetch_res        \* res of get_data_taipei_api: the pages collected

fetch_vars == <<fetch_pipeline, fetch_pc, fetch_todo, fetch_log, fetch_count, fetch_res>>

\* state of the TDX token cache and of one get_token call (dags/utils/auth_tdx.py)
VARIABLES
    tok_clock,   \* datetime.now(), in units of the token lifetimes
    tok_pc,      \* "boot", "idle", "read", "request", "save", "return", "returned", "raised"
    tok_file,    \* contents of tdx_token.pickle
    tok_seen,    \* the file as the running call found it
    tok_now,     \* now_time of the running call
    tok_res,     \* answer to the token request of the running call
    tok_ret,     \* token returned by the call
    tok_error,   \* exception that left the call
    tok_issued   \* number of tokens the TDX service has issued

token_vars == <<tok_clock, tok_pc, tok_file, tok_seen, tok_now, tok_res, tok_ret,
                tok_error, tok_issued>>

\* the load call that is being repeated (a pipeline run again on the same data)
VARIABLES
    first_run    \* [taken, args, after]: the call repeated and the tables it left

twice_vars == <<first_run>>

\* two calls of the load executor at the same time, each on its own
\* connection, against the same two tables (dags/utils/load_stage.py)
VARIABLES
    run_pc,        \* position of each call
    run_args,      \* [load_behavior, data] of each call
    run_work,      \* what each call has executed in its open transaction
    tables,        \* committed rows of default_table and history_table,
                   \* each row with the call that wrote it
    lock_holder,   \* call whose transaction holds the lock that TRUNCATE
                   \* takes on default_table; 0 when it is free
    commit_order,  \* the calls in the order of their commits
    overlapped     \* a call connected while the other's transaction held the lock

conc_vars == <<run_pc, run_args, run_work, tables, lock_holder, commit_order, overlapped>>

\* state of the XML parse loop of building_permit/R0057.py
VARIABLES
    parse_pc,             \* "start", "permits", "units", "framed"
    xml_root,             \* the parsed document: its permits and their land units
    permit_index,         \* position of `for permit in root`
    index_of_land_unit,   \* land units of the current permit handled so far
    heap,                 \* the dict objects created by `temp = {}`
    temps,                \* the list temps: references into heap
    raw_data              \* rows of pd.DataFrame(temps)

parse_vars == <<parse_pc, xml_root, permit_index, index_of_land_unit, heap, temps, raw_data>>

not_load_vars == <<pipe_vars, geo_vars, fetch_vars, token_vars, twice_vars, conc_vars,
                   parse_vars>>

not_pipe_vars == <<load_vars, geo_vars, fetch_vars, token_vars, twice_vars, conc_vars,
                   parse_vars>>

not_geo_vars == <<load_vars, pipe_vars, fetch_vars, token_vars, twice_vars, conc_vars,
                  parse_vars>>

not_fetch_vars == <<load_vars, pipe_vars, geo_vars, token_vars, twice_vars, conc_vars,
                    parse_vars>>

not_token_vars == <<load_vars, pipe_vars, geo_vars, fetch_vars, twice_vars, conc_vars,
                    parse_vars>>

not_twice_vars == <<pipe_vars, geo_vars, fetch_vars, token_vars, conc_vars, parse_vars>>

not_conc_vars == <<load_vars, pipe_vars, geo_vars, fetch_vars, token_vars, twice_vars,
                   parse_vars>>

not_parse_vars == <<load_vars, pipe_vars, geo_vars, fetch_vars, token_vars, twice_vars,
                    conc_vars>>

NoArgs == [fn |-> "none", data |-> <<>>, load_behavior |-> "none",
           history_table |-> "None", geometry_type |-> "none",
           shape |-> GeoDataShape]

\* prior contents of the two tables before the first modelled run
PriorContents == {[default_table |-> <<>>,     history_table |-> <<>>],
                  [default_table |-> <<"r1">>, history_table |-> <<"r2">>]}

LoadInit ==
    /\ sink \in PriorContents
    /\ txn = sink
    /\ conn = "none"
    /\ args = NoArgs
    /\ pc = "idle"
    /\ statements = <<>>
    /\ error = "none"
    /\ pre = sink
    /\ prior = sink
    /\ snapshots = <<>>

\* -------------------------------------------------- load_stage.py: steps
\* load_stage.py:8-10 and :81-89  a pipeline calls one of the two functions.
\* Only calls that keep the tables within the explored length are started:
\* default_table grows under append, history_table under current+history.
Call ==
    /\ pc = "idle"
    /\ \E fn \in Functions, data \in Datasets, lb \in LoadBehaviors,
          ht \in HistoryTableArgs :
          /\ lb = "append" => Len(sink.default_table) + Len(data) <= MaxTable
          /\ lb = "current+history" => Len(sink.history_table) + Len(data) <= MaxTable
          /\ \/ /\ fn = "save_dataframe_to_postgresql"
                /\ \E shape \in DataShapes :
                      args' = [fn |-> fn, data |-> data, load_behavior |-> lb,
                               history_table |-> ht, geometry_type |-> "none",
                               shape |-> shape]
             \/ /\ fn = "save_geodataframe_to_postgresql"
                /\ \E gt \in GeometryTypeArgs :
                      args' = [fn |-> fn, data |-> data, load_behavior |-> lb,
                               history_table |-> ht, geometry_type |-> gt,
                               shape |-> GeoDataShape]
    /\ pc' = "check"
    /\ pre' = sink
    /\ txn' = sink
    /\ conn' = "none"
    /\ statements' = <<>>
    /\ error' = "none"
    /\ UNCHANGED <<sink, prior, snapshots>>
    /\ UNCHANGED not_load_vars

Raise(kind) ==
    /\ pc' = "raised"
    /\ error' = kind

\* load_stage.py:29-42  save_dataframe_to_postgresql rejects geometry data
CheckDataType ==
    /\ pc = "check"
    /\ args.fn = "save_dataframe_to_postgresql"
    /\ IF args.shape.type = "GeoDataFrame" \/ is_column_include_geometry(args.shape.columns)
       THEN Raise("ValueError")
       ELSE pc' = "connect" /\ error' = error
    /\ UNCHANGED <<sink, txn, conn, args, statements, pre, prior, snapshots>>
    /\ UNCHANGED not_load_vars

\* load_stage.py:120-134  save_geodataframe_to_postgresql checks geometry_type
CheckGeometryType ==
    /\ pc = "check"
    /\ args.fn = "save_geodataframe_to_postgresql"
    /\ IF ~GeometryTypeInWhiteList(args.geometry_type)
       THEN Raise("ValueError")
       ELSE pc' = "connect" /\ error' = error
    /\ UNCHANGED <<sink, txn, conn, args, statements, pre, prior, snapshots>>
    /\ UNCHANGED not_load_vars

\* load_stage.py:47 and :139  conn = engine.connect().  The steps below are
\* those of a call that obtained its connection; nothing has been sent on it.
Connect ==
    /\ pc = "connect"
    /\ conn' = "open"
    /\ txn' = sink
    /\ pc' = "dispatch"
    /\ UNCHANGED <<sink, args, statements, error, pre, prior, snapshots>>
    /\ UNCHANGED not_load_vars

\* load_stage.py:48-72 and :140-184  the branch on load_behavior, up to the
\* first statement of the branch taken
Dispatch ==
    /\ pc = "dispatch"
    /\ LET branch == BehaviorBranch(args.load_behavior)
       IN  IF branch = "append" THEN pc' = "to_sql_default" /\ error' = error
           ELSE IF branch = "replace" THEN pc' = "truncate" /\ error' = error
           ELSE IF branch = "current+history"
                THEN IF HistoryTableMissing(args.fn, args.history_table)
                     THEN Raise("ValueError")
                     ELSE pc' = "truncate" /\ error' = error
           ELSE Raise("ValueError")
    /\ UNCHANGED <<sink, txn, conn, args, statements, pre, prior, snapshots>>
    /\ UNCHANGED not_load_vars

\* mutant: the TRUNCATE empties history_table as well
TruncateBothTables ==
    /\ pc = "truncate"
    /\ txn' = [default_table |-> <<>>, history_table |-> <<>>]
    /\ sink' = sink
    /\ statements' = Append(statements, "TRUNCATE default_table")
    /\ pc' = "to_sql_default"
    /\ UNCHANGED <<conn, args, error, pre, prior, snapshots>>
    /\ UNCHANGED not_load_vars

\* load_stage.py:53, :62, :150, :164  conn.execute(TRUNCATE TABLE default_table)
Truncate ==
    /\ pc = "truncate"
    /\ txn' = [txn EXCEPT !.default_table = TruncateTable(@)]
    /\ sink' = CommittedAfterStatement(sink, txn')
    /\ statements' = Append(statements, "TRUNCATE default_table")
    /\ pc' = "to_sql_default"
    /\ UNCHANGED <<conn, args, error, pre, prior, snapshots>>
    /\ UNCHANGED not_load_vars

\* load_stage.py:49, :54, :63 and :141, :151, :165  to_sql(default_table, conn)
ToSqlDefault ==
    /\ pc = "to_sql_default"
    /\ txn' = [txn EXCEPT !.default_table = ToSqlAppend(@, args.data)]
    /\ sink' = CommittedAfterStatement(sink, txn')
    /\ statements' = Append(statements, "INSERT default_table")
    /\ pc' = IF BehaviorBranch(args.load_behavior) = "current+history"
             THEN "to_sql_history" ELSE "commit"
    /\ UNCHANGED <<conn, args, error, pre, prior, snapshots>>
    /\ UNCHANGED not_load_vars

\* load_stage.py:66 and :173  to_sql(history_table, conn); the sink rejects
\* an empty table name, so with history_table == "" only SinkError applies
ToSqlHistory ==
    /\ pc = "to_sql_history"
    /\ args.history_table # ""
    /\ txn' = [txn EXCEPT !.history_table = ToSqlAppend(@, args.data)]
    /\ sink' = CommittedAfterStatement(sink, txn')
    /\ statements' = Append(statements, "INSERT history_table")
    /\ pc' = "commit"
    /\ UNCHANGED <<conn, args, error, pre, prior, snapshots>>
    /\ UNCHANGED not_load_vars

\* A statement fails in the sink (constraint violation, lost connection, bad
\* identifier): the exception leaves the function from the statement's line.
\* A failing insert may have written some of its rows into the transaction.
SinkError ==
    /\ pc \in {"truncate", "to_sql_default", "to_sql_history"}
    /\ \E k \in 0..Len(args.data) :
          /\ k < Len(args.data) \/ k = 0
          /\ txn' = IF pc = "to_sql_default"
                    THEN [txn EXCEPT !.default_table = ToSqlAppend(@, Prefix(args.data, k))]
                    ELSE IF pc = "to_sql_history" /\ args.history_table # ""
                    THEN [txn EXCEPT !.history_table = ToSqlAppend(@, Prefix(args.data, k))]
                    ELSE txn
    /\ sink' = CommittedAfterStatement(sink, txn')
    /\ statements' = Append(statements,
                            IF pc = "truncate" THEN "TRUNCATE default_table"
                            ELSE IF pc = "to_sql_default" THEN "INSERT default_table"
                            ELSE "INSERT history_table")
    /\ Raise("SinkError")
    /\ UNCHANGED <<conn, args, pre, prior, snapshots>>
    /\ UNCHANGED not_load_vars

\* load_stage.py:73 and :185  conn.commit()
Commit ==
    /\ pc = "commit"
    /\ sink' = txn
    /\ snapshots' = IF BehaviorBranch(args.load_behavior) = "current+history"
                    THEN snapshots \o args.data ELSE snapshots
    /\ pc' = "close"
    /\ UNCHANGED <<txn, conn, args, statements, error, pre, prior>>
    /\ UNCHANGED not_load_vars

\* load_stage.py:74 and :186  conn.close(), then the timing print and return
Close ==
    /\ pc = "close"
    /\ conn' = "closed"
    /\ pc' = "done"
    /\ UNCHANGED <<sink, txn, args, statements, error, pre, prior, snapshots>>
    /\ UNCHANGED not_load_vars

\* The call is over (returned or raised) and the pipeline script with it; an
\* uncommitted transaction is discarded with the process's connection.
EndRun ==
    /\ pc \in {"done", "raised"}
    /\ pc' = "idle"
    /\ args' = NoArgs
    /\ txn' = sink
    /\ conn' = "none"
    /\ statements' = <<>>
    /\ error' = "none"
    /\ pre' = sink
    /\ UNCHANGED <<sink, prior, snapshots>>
    /\ UNCHANGED not_load_vars

LoadNext ==
    \/ Call
    \/ CheckDataType
    \/ CheckGeometryType
    \/ Connect
    \/ Dispatch
    \/ Truncate
    \/ ToSqlDefault
    \/ ToSqlHistory
    \/ SinkError
    \/ Commit
    \/ Close
    \/ EndRun

\* ------------------------------------------- transform_geometry.py: data
\* longest feature list a source delivers in one pipeline run
MaxFeatures == 2

\* A geometry is a record tagged with its shapely geom_type; a coordinate is
\* <<x, y>> or <<x, y, z>>.  NA stands for None / a missing geometry.
NA == [geom_type |-> "NA"]

Polygon(shell, holes) == [geom_type |-> "Polygon", exterior |-> shell, interiors |-> holes]

MultiPolygon(polygons) == [geom_type |-> "MultiPolygon", geoms |-> polygons]

LineString(coords) == [geom_type |-> "LineString", coords |-> coords]

MultiLineString(lines) == [geom_type |-> "MultiLineString", geoms |-> lines]

\* a Point holds one coordinate, or none when it is empty
Point(coords) == [geom_type |-> "Point", coords |-> coords]

\* pd.isna(geo): true of None, false of every shapely geometry
IsNa(geo) == geo = NA

\* xy[:2] for every coordinate (transform_geometry.py:43 and :48)
FirstTwo(coords) == [i \in 1..Len(coords) |-> <<coords[i][1], coords[i][2]>>]

\* mutant: every geometry that is not missing is wrapped, a MultiPolygon too
WrapsWhateverIsNotMissing(geo) == IF IsNa(geo) THEN geo ELSE MultiPolygon(<<geo>>)

\* transform_geometry.py:91-124
convert_polygon_to_multipolygon(geo) ==
    LET is_multipolygon == geo.geom_type = "MultiPolygon"
        is_na == IsNa(geo)
    IN  IF is_multipolygon \/ is_na THEN geo ELSE MultiPolygon(<<geo>>)

\* mutant: the wrapped line loses its elevation
WrapsPlanarLine(geo) ==
    IF geo.geom_type = "MultiLineString" \/ IsNa(geo) THEN geo
    ELSE MultiLineString(<<LineString(FirstTwo(geo.coords))>>)

\* transform_geometry.py:55-88
convert_linestring_to_multilinestring(geo) ==
    LET is_multistring == geo.geom_type = "MultiLineString"
        is_na == IsNa(geo)
    IN  IF is_multistring \/ is_na THEN geo ELSE MultiLineString(<<geo>>)

\* GeoDataFrame.to_crs on one geometry (transform_geometry.py:190-194 and
\* :255-259): a missing geometry stays missing, the same reference leaves the
\* geometry as it is, another reference gives the geometry's image, kept as
\* the transformation applied to the source geometry; the geom_type is kept.
to_crs(geo, from_crs, epsg) ==
    IF IsNa(geo) THEN NA
    ELSE IF from_crs = epsg THEN geo
    ELSE [geom_type |-> geo.geom_type, epsg |-> epsg, image_of |-> geo]

\* transform_geometry.py:207 and :261
\* WKTElement(x.wkt, srid=to_crs) if x is not None else None
WKTElement(geo, srid) ==
    IF IsNa(geo) THEN NA ELSE [geom_type |-> "WKTElement", wkt |-> geo, srid |-> srid]

\* transform_geometry.py:213-264  the geometry and wkb_geometry columns of
\* the frame convert_geometry_to_wkbgeometry returns
convert_geometry_to_wkbgeometry(geometry, from_crs, epsg) ==
    LET Reproject(g) == IF from_crs = epsg
                        THEN to_crs(to_crs(g, from_crs, from_crs), from_crs, epsg)
                        ELSE to_crs(g, from_crs, epsg)
        Encode(g) == WKTElement(g, epsg)
        projected == [i \in 1..Len(geometry) |-> Reproject(geometry[i])]
    IN  [geometry |-> projected,
         wkb_geometry |-> [i \in 1..Len(projected) |-> Encode(projected[i])]]

\* x / y values as an API delivers them: numeric text, an empty string, a
\* missing value (None)
NumericText == {"121", "25"}

ParseNumber(v) == IF v = "121" THEN 121 ELSE 25

\* pd.to_numeric(v, errors="coerce"): numeric text is parsed, everything
\* else becomes NaN
NaN == [nan |-> TRUE, value |-> 0]

to_numeric(v) == IF v \in NumericText THEN [nan |-> FALSE, value |-> ParseNumber(v)] ELSE NaN

\* mutant: only a missing x makes the point empty
PointsFromXOnly(x, y) ==
    IF x.nan THEN Point(<<>>) ELSE Point(<<<<x.value, y.value>>>>)

\* gpd.points_from_xy on one pair: a pair with a NaN gives an empty point
points_from_xy(x, y) ==
    IF x.nan \/ y.nan THEN Point(<<>>) ELSE Point(<<<<x.value, y.value>>>>)

\* transform_geometry.py:182-210  the geometry and wkb_geometry columns of
\* the frame add_point_wkbgeometry_column_to_df returns; `xy` holds the
\* (x, y) pairs of the two series.  With is_add_xy_columns the type of the
\* first geometry is read (gdf["geometry"].type.iloc[0]), which fails on a
\* frame without rows.
add_point_wkbgeometry_column_to_df(xy, from_crs, epsg, is_add_xy_columns) ==
    LET MakePoint(pair) == points_from_xy(to_numeric(pair[1]), to_numeric(pair[2]))
    IN  IF is_add_xy_columns /\ xy = <<>>
        THEN [raised |-> "IndexError", geometry |-> <<>>, wkb_geometry |-> <<>>]
        ELSE [raised |-> "none"] @@
             convert_geometry_to_wkbgeometry([i \in 1..Len(xy) |-> MakePoint(xy[i])],
                                             from_crs, epsg)

\* ------------------------------------------------ proj_city_dashboard/*
Pipelines == {"sidewalk", "debris_area", "riverside_bike_path", "hospital",
              "ubike_station"}

\* the Config block of each pipeline script
Config(p) ==
    CASE p = "sidewalk" ->
           [FROM_CRS |-> 3826, LOAD_BEHAVIOR |-> "current+history",
            GEOMETRY_TYPE |-> "MultiPolygon", source |-> "polygons"]
      [] p = "debris_area" ->
           [FROM_CRS |-> 3826, LOAD_BEHAVIOR |-> "current+history",
            GEOMETRY_TYPE |-> "MultiPolygon", source |-> "polygons"]
      [] p = "riverside_bike_path" ->
           [FROM_CRS |-> 4326, LOAD_BEHAVIOR |-> "current+history",
            GEOMETRY_TYPE |-> "MultiLineStringZ", source |-> "lines"]
      [] p = "hospital" ->
           [FROM_CRS |-> 4326, LOAD_BEHAVIOR |-> "current+history",
            GEOMETRY_TYPE |-> "Point", source |-> "xy"]
      [] p = "ubike_station" ->
           [FROM_CRS |-> 4326, LOAD_BEHAVIOR |-> "current+history",
            GEOMETRY_TYPE |-> "Point", source |-> "xy"]

\* the published reference: to_crs=4326, the default of both converters
TO_CRS == 4326

\* sample geometries a source file can hold
RingA == <<<<0, 0>>, <<1, 0>>, <<1, 1>>, <<0, 0>>>>
RingB == <<<<2, 2>>, <<3, 2>>, <<3, 3>>, <<2, 2>>>>
LineA == <<<<0, 0>>, <<1, 1>>>>
LineAZ == <<<<0, 0, 0>>, <<1, 1, 5>>>>

\* a GeoJSON or shapefile layer of areas: single and multi polygons, gaps
PolygonFeatures == {Polygon(RingA, <<>>),
                    MultiPolygon(<<Polygon(RingA, <<>>)>>),
                    MultiPolygon(<<Polygon(RingA, <<>>), Polygon(RingB, <<>>)>>),
                    NA}

\* a KML layer of paths: single and multi lines, with and without elevation
LineFeatures == {LineString(LineA), LineString(LineAZ),
                 MultiLineString(<<LineString(LineAZ)>>), NA}

\* x / y values of an API record: a number as text, an empty string, None
XYValues == {"121", "", "None"}

SourceFeatures(kind) ==
    IF kind = "polygons" THEN PolygonFeatures
    ELSE IF kind = "lines" THEN LineFeatures
    ELSE XYValues \X XYValues

NoFrame == [geometry |-> <<>>, wkb_geometry |-> <<>>]

NotHanded == [geometry_type |-> "none", load_behavior |-> "none", gdata |-> <<>>]

PipeInit ==
    /\ pipeline = "none"
    /\ stage = "start"
    /\ raw = <<>>
    /\ gdata = NoFrame
    /\ handed = NotHanded

\* the Extract block of a pipeline script: the source delivers its features
Extract ==
    /\ stage = "start"
    /\ \E p \in Pipelines :
          /\ pipeline' = p
          /\ raw' \in SeqsUpTo(SourceFeatures(Config(p).source), MaxFeatures)
    /\ stage' = "extracted"
    /\ UNCHANGED <<gdata, handed>>
    /\ UNCHANGED not_pipe_vars

\* sidewalk/D030101_1.py:38-39
TransformSidewalk ==
    /\ stage = "extracted" /\ pipeline = "sidewalk"
    /\ gdata' = convert_geometry_to_wkbgeometry(raw, Config(pipeline).FROM_CRS, TO_CRS)
    /\ stage' = "transformed"
    /\ UNCHANGED <<pipeline, raw, handed>>
    /\ UNCHANGED not_pipe_vars

\* debris_area/R0019.py:56-59
TransformDebrisArea ==
    /\ stage = "extracted" /\ pipeline = "debris_area"
    /\ gdata' = convert_geometry_to_wkbgeometry(
                    [i \in 1..Len(raw) |-> convert_polygon_to_multipolygon(raw[i])],
                    Config(pipeline).FROM_CRS, TO_CRS)
    /\ stage' = "transformed"
    /\ UNCHANGED <<pipeline, raw, handed>>
    /\ UNCHANGED not_pipe_vars

\* riverside_bike_path/D030102_2.py:55-57
TransformRiversideBikePath ==
    /\ stage = "extracted" /\ pipeline = "riverside_bike_path"
    /\ gdata' = convert_geometry_to_wkbgeometry(
                    [i \in 1..Len(raw) |-> convert_linestring_to_multilinestring(raw[i])],
                    Config(pipeline).FROM_CRS, TO_CRS)
    /\ stage' = "transformed"
    /\ UNCHANGED <<pipeline, raw, handed>>
    /\ UNCHANGED not_pipe_vars

\* simple_template/template_dag.py:42-44 (is_add_xy_columns defaults to True)
\* and ubike_station/R0071_1.py:97-99 (is_add_xy_columns=False)
TransformPoints ==
    /\ stage = "extracted" /\ pipeline \in {"hospital", "ubike_station"}
    /\ LET res == add_point_wkbgeometry_column_to_df(
                      raw, Config(pipeline).FROM_CRS, TO_CRS, pipeline = "hospital")
       IN  /\ gdata' = [geometry |-> res.geometry, wkb_geometry |-> res.wkb_geometry]
           /\ stage' = IF res.raised = "none" THEN "transformed" ELSE "failed"
    /\ UNCHANGED <<pipeline, raw, handed>>
    /\ UNCHANGED not_pipe_vars

\* the Load block: ready_data = gdata[[..., "wkb_geometry"]] goes to
\* save_geodataframe_to_postgresql with the script's GEOMETRY_TYPE
Load ==
    /\ stage = "transformed"
    /\ handed' = [geometry_type |-> Config(pipeline).GEOMETRY_TYPE,
                  load_behavior |-> Config(pipeline).LOAD_BEHAVIOR,
                  gdata |-> gdata.wkb_geometry]
    /\ stage' = "handed"
    /\ UNCHANGED <<pipeline, raw, gdata>>
    /\ UNCHANGED not_pipe_vars

\* the script ends; the next run starts from fresh source data
Finish ==
    /\ stage \in {"handed", "failed"}
    /\ pipeline' = "none"
    /\ stage' = "start"
    /\ raw' = <<>>
    /\ gdata' = NoFrame
    /\ handed' = NotHanded
    /\ UNCHANGED not_pipe_vars

PipeNext ==
    \/ Extract
    \/ TransformSidewalk
    \/ TransformDebrisArea
    \/ TransformRiversideBikePath
    \/ TransformPoints
    \/ Load
    \/ Finish

\* ----------------------------- transform_geometry.py: converters, called
\* most member geometries of a multi geometry given to a converter
MaxParts == 2

HoleA == <<<<0, 0>>, <<1, 0>>, <<0, 1>>, <<0, 0>>>>
LineB == <<<<2, 2>>, <<3, 3>>, <<4, 2>>>>

\* the same coordinates carrying an elevation
WithZ(coords) == [i \in 1..Len(coords) |-> <<coords[i][1], coords[i][2], 5 + i>>]

Polygons2D == {Polygon(shell, holes) : shell \in {RingA, RingB}, holes \in {<<>>, <<HoleA>>}}

Polygons3D == {Polygon(WithZ(shell), holes) :
                  shell \in {RingA, RingB}, holes \in {<<>>, <<WithZ(HoleA)>>}}

NonEmptySeqs(S, n) == SeqsUpTo(S, n) \ {<<>>}

PolygonInputs ==
    Polygons2D \cup Polygons3D
    \cup {MultiPolygon(ps) : ps \in NonEmptySeqs(Polygons2D, MaxParts)}
    \cup {MultiPolygon(ps) : ps \in NonEmptySeqs(Polygons3D, MaxParts)}

Lines == {LineString(LineA), LineString(LineB), LineString(WithZ(LineA))}

LineInputs == Lines \cup {MultiLineString(ls) : ls \in NonEmptySeqs(Lines, MaxParts)}

Converters == {"convert_polygon_to_multipolygon", "convert_linestring_to_multilinestring",
               "convert_3d_polygon_to_2d_polygon"}

\* the geometries a converter is applied to: the column of a polygon layer or
\* of a line layer, missing values included
ConverterInputs(fn) ==
    IF fn = "convert_linestring_to_multilinestring" THEN LineInputs \cup {NA}
    ELSE PolygonInputs \cup {NA}

\* geo.has_z of a ring, a line, a polygon, a multi geometry
CoordsHaveZ(coords) == \E i \in 1..Len(coords) : Len(coords[i]) = 3

has_z(geo) ==
    IF geo.geom_type = "Polygon"
    THEN CoordsHaveZ(geo.exterior)
         \/ \E h \in 1..Len(geo.interiors) : CoordsHaveZ(geo.interiors[h])
    ELSE IF geo.geom_type = "MultiPolygon"
    THEN \E k \in 1..Len(geo.geoms) :
            CoordsHaveZ(geo.geoms[k].exterior)
            \/ \E h \in 1..Len(geo.geoms[k].interiors) :
                  CoordsHaveZ(geo.geoms[k].interiors[h])
    ELSE IF geo.geom_type = "LineString" THEN CoordsHaveZ(geo.coords)
    ELSE IF geo.geom_type = "MultiLineString"
    THEN \E k \in 1..Len(geo.geoms) : CoordsHaveZ(geo.geoms[k].coords)
    ELSE FALSE

Returned(value) == [raised |-> "none", value |-> value]

Raised(exception) == [raised |-> exception, value |-> NA]

\* transform_geometry.py:43-44 and :48-49
\* lines = [xy[:2] for xy in list(geo.exterior.coords)]; Polygon(lines)
Polygon2dFromExterior(ap) == Polygon(FirstTwo(ap.exterior), <<>>)

\* transform_geometry.py:10-52.  None has no has_z; new_geo is assigned only
\* in the two branches under `if geo.has_z`, so every other path reaches
\* `return new_geo` with the name unbound; `for ap in geo` over a MultiPolygon
\* runs or raises TypeError with the installed shapely (can_iterate).
convert_3d_polygon_to_2d_polygon(geo, can_iterate) ==
    IF IsNa(geo) THEN Raised("AttributeError")
    ELSE IF has_z(geo) /\ geo.geom_type = "Polygon"
    THEN Returned(Polygon2dFromExterior(geo))
    ELSE IF has_z(geo) /\ geo.geom_type = "MultiPolygon"
    THEN IF can_iterate
         THEN Returned(MultiPolygon([k \in 1..Len(geo.geoms) |->
                                        Polygon2dFromExterior(geo.geoms[k])]))
         ELSE Raised("TypeError")
    ELSE Raised("UnboundLocalError")

\* one converter applied to one geometry
ApplyConverter(fn, geo, can_iterate) ==
    IF fn = "convert_polygon_to_multipolygon"
    THEN Returned(convert_polygon_to_multipolygon(geo))
    ELSE IF fn = "convert_linestring_to_multilinestring"
    THEN Returned(convert_linestring_to_multilinestring(geo))
    ELSE convert_3d_polygon_to_2d_polygon(geo, can_iterate)

NotCalled == [raised |-> "none", value |-> NA]

GeoInit ==
    /\ geo_pc = "idle"
    /\ geo_fn = "none"
    /\ geo_in = NA
    /\ geo_out = NotCalled
    /\ geo_again = NotCalled
    /\ iterable = TRUE

\* geos.apply(converter): the converter is called on one geometry
GeoCall ==
    /\ geo_pc = "idle"
    /\ \E fn \in Converters :
          /\ geo_fn' = fn
          /\ geo_in' \in ConverterInputs(fn)
    /\ iterable' \in BOOLEAN
    /\ geo_pc' = "called"
    /\ UNCHANGED <<geo_out, geo_again>>
    /\ UNCHANGED not_geo_vars

\* the body of the converter runs
GeoApply ==
    /\ geo_pc = "called"
    /\ geo_out' = ApplyConverter(geo_fn, geo_in, iterable)
    /\ geo_pc' = "returned"
    /\ UNCHANGED <<geo_fn, geo_in, geo_again, iterable>>
    /\ UNCHANGED not_geo_vars

\* the converter is applied to the geometry it returned
GeoApplyAgain ==
    /\ geo_pc = "returned"
    /\ geo_out.raised = "none"
    /\ geo_again' = ApplyConverter(geo_fn, geo_out.value, iterable)
    /\ geo_pc' = "reapplied"
    /\ UNCHANGED <<geo_fn, geo_in, geo_out, iterable>>
    /\ UNCHANGED not_geo_vars

GeoDone ==
    /\ geo_pc \in {"returned", "reapplied"}
    /\ geo_pc' = "idle"
    /\ geo_fn' = "none"
    /\ geo_in' = NA
    /\ geo_out' = NotCalled
    /\ geo_again' = NotCalled
    /\ iterable' = TRUE
    /\ UNCHANGED not_geo_vars

GeoNext ==
    \/ GeoCall
    \/ GeoApply
    \/ GeoApplyAgain
    \/ GeoDone

\* ------------------------------ Extract blocks: the network requests
\* limit=1000 and the step of the offsets (extract_stage.py:229-232)
PageLimit == 1000

\* record counts the API reports
Counts == {0, 1, 1000, 1001}

FetchPipelines == {"sidewalk", "debris_area", "riverside_bike_path", "hospital",
                   "ubike_station", "building_permit"}

\* the requests of each script's Extract block, in program order; the page
\* requests of get_data_taipei_api are known once the count has arrived
Requests(p) ==
    CASE p = "sidewalk" -> <<[fn |-> "download_file", offset |-> 0]>>
      [] p = "debris_area" -> <<[fn |-> "download_file", offset |-> 0]>>
      [] p = "riverside_bike_path" ->
           <<[fn |-> "download_file", offset |-> 0],
             [fn |-> "get_data_taipei_file_last_modified_time", offset |-> 0]>>
      [] p = "hospital" ->
           <<[fn |-> "get_data_taipei_api", offset |-> 0],
             [fn |-> "get_data_taipei_file_last_modified_time", offset |-> 0]>>
      [] p = "ubike_station" ->
           <<[fn |-> "requests.get", offset |-> 0], [fn |-> "requests.get", offset |-> 0]>>
      [] p = "building_permit" ->
           <<[fn |-> "requests.get", offset |-> 0],
             [fn |-> "get_data_taipei_file_last_modified_time", offset |-> 0]>>

\* what a request can come back with: no answer within the timeout, or a
\* status with a body that has or lacks the layout the caller reads
Timeout == [status |-> 0, usable |-> FALSE]

Responses == {Timeout,
              [status |-> 200, usable |-> TRUE],
              [status |-> 500, usable |-> FALSE],
              [status |-> 500, usable |-> TRUE]}

\* requests raises (Timeout) when no answer arrives in time
TimedOut(response) == response = Timeout

\* r.raise_for_status() (extract_stage.py:69): raises on a 4xx / 5xx status
RaiseForStatus(response) == response.status >= 400

\* `if res.status_code != 200: raise ValueError` (extract_stage.py:269-270,
\* R0071_1.py:34-35 and 39-40, R0057.py:29-30)
StatusNot200(response) == response.status # 200

\* response.json() and the keys read from it (extract_stage.py:226-227 and
\* 234-235): raises when the body is not JSON of the expected layout; the
\* status is not looked at
BodyUnreadable(response) == ~response.usable

\* the records a page request returns: up to `limit` records from `offset`
\* on; an error answer with a readable body carries no records
PageRecords(response, count, offset) ==
    IF response.status # 200 \/ offset >= count THEN 0
    ELSE IF count - offset > PageLimit THEN PageLimit ELSE count - offset

\* mutant: range(offset_count), the last offset is not requested
RECURSIVE PageRequestsShort(_, _)
PageRequestsShort(i, offset_count) ==
    IF i >= offset_count THEN <<>>
    ELSE <<[fn |-> "page", offset |-> i * PageLimit]>>
             \o PageRequestsShort(i + 1, offset_count)

\* range(offset_count + 1) with i = i * 1000 (extract_stage.py:229-232)
RECURSIVE PageRequests(_, _)
PageRequests(i, offset_count) ==
    IF i > offset_count THEN <<>>
    ELSE <<[fn |-> "page", offset |-> i * PageLimit]>> \o PageRequests(i + 1, offset_count)

FetchInit ==
    /\ fetch_pipeline = "none"
    /\ fetch_pc = "start"
    /\ fetch_todo = <<>>
    /\ fetch_log = <<>>
    /\ fetch_count = 0
    /\ fetch_res = <<>>

\* a script is started
StartRun ==
    /\ fetch_pc = "start"
    /\ \E p \in FetchPipelines :
          /\ fetch_pipeline' = p
          /\ fetch_todo' = Requests(p)
    /\ fetch_pc' = "extract"
    /\ UNCHANGED <<fetch_log, fetch_count, fetch_res>>
    /\ UNCHANGED not_fetch_vars

\* the exception of a request leaves the script, or the next request follows
AfterRequest(failed, response, todo) ==
    /\ fetch_log' = Append(fetch_log, [fn |-> Head(fetch_todo).fn, response |-> response])
    /\ IF failed
       THEN fetch_pc' = "failed" /\ fetch_todo' = <<>>
       ELSE fetch_pc' = "extract" /\ fetch_todo' = todo

\* extract_stage.py:59-76  download_file
DownloadFile ==
    /\ fetch_pc = "extract" /\ fetch_todo # <<>>
    /\ Head(fetch_todo).fn = "download_file"
    /\ \E response \in Responses :
          AfterRequest(TimedOut(response) \/ RaiseForStatus(response),
                       response, Tail(fetch_todo))
    /\ UNCHANGED <<fetch_pipeline, fetch_count, fetch_res>>
    /\ UNCHANGED not_fetch_vars

\* extract_stage.py:224-229  the first request of get_data_taipei_api
GetDataTaipeiApiCount ==
    /\ fetch_pc = "extract" /\ fetch_todo # <<>>
    /\ Head(fetch_todo).fn = "get_data_taipei_api"
    /\ \E response \in Responses, count \in Counts :
          LET failed == TimedOut(response) \/ BodyUnreadable(response)
              offset_count == count \div PageLimit
          IN  /\ AfterRequest(failed, response,
                              PageRequests(0, offset_count) \o Tail(fetch_todo))
              /\ fetch_count' = IF failed THEN 0 ELSE count
    /\ UNCHANGED <<fetch_pipeline, fetch_res>>
    /\ UNCHANGED not_fetch_vars

\* extract_stage.py:230-235  one turn of the page loop
GetDataTaipeiApiPage ==
    /\ fetch_pc = "extract" /\ fetch_todo # <<>>
    /\ Head(fetch_todo).fn = "page"
    /\ \E response \in Responses :
          LET failed == TimedOut(response) \/ BodyUnreadable(response)
              offset == Head(fetch_todo).offset
          IN  /\ AfterRequest(failed, response, Tail(fetch_todo))
              /\ fetch_res' = IF failed THEN fetch_res
                              ELSE Append(fetch_res,
                                          [offset |-> offset,
                                           records |-> PageRecords(response, fetch_count,
                                                                   offset)])
    /\ UNCHANGED <<fetch_pipeline, fetch_count>>
    /\ UNCHANGED not_fetch_vars

\* extract_stage.py:267-274  get_data_taipei_file_last_modified_time
GetLastModifiedTime ==
    /\ fetch_pc = "extract" /\ fetch_todo # <<>>
    /\ Head(fetch_todo).fn = "get_data_taipei_file_last_modified_time"
    /\ \E response \in Responses :
          AfterRequest(TimedOut(response) \/ StatusNot200(response)
                           \/ BodyUnreadable(response),
                       response, Tail(fetch_todo))
    /\ UNCHANGED <<fetch_pipeline, fetch_count, fetch_res>>
    /\ UNCHANGED not_fetch_vars

\* ubike_station/R0071_1.py:31-40 and building_permit/R0057.py:28-30
\* requests.get followed by the script's own status check
RequestsGet ==
    /\ fetch_pc = "extract" /\ fetch_todo # <<>>
    /\ Head(fetch_todo).fn = "requests.get"
    /\ \E response \in Responses :
          AfterRequest(TimedOut(response) \/ StatusNot200(response),
                       response, Tail(fetch_todo))
    /\ UNCHANGED <<fetch_pipeline, fetch_count, fetch_res>>
    /\ UNCHANGED not_fetch_vars

\* the Extract block is through: the Transform block runs
BeginTransform ==
    /\ fetch_pc = "extract" /\ fetch_todo = <<>>
    /\ fetch_pc' = "transform"
    /\ UNCHANGED <<fetch_pipeline, fetch_todo, fetch_log, fetch_count, fetch_res>>
    /\ UNCHANGED not_fetch_vars

\* the Load block: the dataset is written to the sink
Publish ==
    /\ fetch_pc = "transform"
    /\ fetch_pc' = "published"
    /\ UNCHANGED <<fetch_pipeline, fetch_todo, fetch_log, fetch_count, fetch_res>>
    /\ UNCHANGED not_fetch_vars

\* the script's process ends
EndScript ==
    /\ fetch_pc \in {"published", "failed"}
    /\ fetch_pipeline' = "none"
    /\ fetch_pc' = "start"
    /\ fetch_todo' = <<>>
    /\ fetch_log' = <<>>
    /\ fetch_count' = 0
    /\ fetch_res' = <<>>
    /\ UNCHANGED not_fetch_vars

FetchNext ==
    \/ StartRun
    \/ DownloadFile
    \/ GetDataTaipeiApiCount
    \/ GetDataTaipeiApiPage
    \/ GetLastModifiedTime
    \/ RequestsGet
    \/ BeginTransform
    \/ Publish
    \/ EndScript

\* --------------------------------------------- auth_tdx.py: TDXAuth
\* last instant of the clock
MaxClock == 3

\* most tokens the TDX service issues
MaxTokens == 2

\* res_json["expires_in"], in clock units
Lifetimes == {1, 2}

Absent == [kind |-> "absent"]

EmptyFile == [kind |-> "empty"]

\* bytes that are not a pickle
Garbage == [kind |-> "garbage"]

\* a pickled dict with the given keys
Pickled(keys, access_token, expired_time) ==
    [kind |-> "pickle", keys |-> keys, access_token |-> access_token,
     expired_time |-> expired_time]

\* {"access_token": token, "expired_time": expired_time} (auth_tdx.py:110)
TokenRecord(access_token, expired_time) ==
    Pickled({"access_token", "expired_time"}, access_token, expired_time)

\* what a process can find at the cache path: nothing, a file of length 0,
\* foreign bytes, a pickled dict without one of the keys, a token record
\* written by an earlier process (token 0)
CacheFiles ==
    {Absent, EmptyFile, Garbage}
    \cup {Pickled(keys, 0, t) : keys \in {{"access_token"}, {"expired_time"}}, t \in {0, MaxClock}}
    \cup {TokenRecord(0, t) : t \in 0..MaxClock}

NoAnswer == [ok |-> FALSE, access_token |-> 0, expires_in |-> 0]

\* open(path, "rb") and pickle.load(handle) (auth_tdx.py:86-87): the
\* exception they raise, "none" when a dict is loaded
LoadError(file) ==
    IF file.kind = "absent" THEN "FileNotFoundError"
    ELSE IF file.kind = "empty" THEN "EOFError"
    ELSE IF file.kind = "garbage" THEN "UnpicklingError"
    ELSE "none"

\* except (FileNotFoundError, EOFError): pass (auth_tdx.py:91-92)
Caught(exception) == exception \in {"FileNotFoundError", "EOFError"}

\* auth_tdx.py:85-92  the outcome of the try block: the cached token is
\* returned, an exception is swallowed or the block falls through (a new
\* token is needed), or an exception leaves the call
ReadCacheOutcome(file, now_time) ==
    LET exception ==
            IF LoadError(file) # "none" THEN LoadError(file)
            ELSE IF "expired_time" \notin file.keys THEN "KeyError"
            ELSE IF now_time < file.expired_time /\ "access_token" \notin file.keys
            THEN "KeyError"
            ELSE "none"
    IN  IF exception # "none"
        THEN IF Caught(exception) THEN [to |-> "request", error |-> "none"]
             ELSE [to |-> "raised", error |-> exception]
        ELSE IF now_time < file.expired_time
        THEN [to |-> "returned", error |-> "none"]
        ELSE [to |-> "request", error |-> "none"]

TokenInit ==
    /\ tok_clock = 0
    /\ tok_pc = "boot"
    /\ tok_file = Absent
    /\ tok_seen = Absent
    /\ tok_now = 0
    /\ tok_res = NoAnswer
    /\ tok_ret = 0
    /\ tok_error = "none"
    /\ tok_issued = 0

\* the process starts with whatever is at DATA_PATH/tdx_token.pickle
FindCacheFile ==
    /\ tok_pc = "boot"
    /\ tok_file' \in CacheFiles
    /\ tok_pc' = "idle"
    /\ UNCHANGED <<tok_clock, tok_seen, tok_now, tok_res, tok_ret, tok_error, tok_issued>>
    /\ UNCHANGED not_token_vars

\* time passes
Tick ==
    /\ tok_pc # "boot"
    /\ tok_clock < MaxClock
    /\ tok_clock' = tok_clock + 1
    /\ UNCHANGED <<tok_pc, tok_file, tok_seen, tok_now, tok_res, tok_ret, tok_error,
                   tok_issued>>
    /\ UNCHANGED not_token_vars

\* auth_tdx.py:84  get_token is called: now_time = datetime.now()
GetToken ==
    /\ tok_pc = "idle"
    /\ tok_now' = tok_clock
    /\ tok_seen' = tok_file
    /\ tok_res' = NoAnswer
    /\ tok_ret' = 0
    /\ tok_error' = "none"
    /\ tok_pc' = "read"
    /\ UNCHANGED <<tok_clock, tok_file, tok_issued>>
    /\ UNCHANGED not_token_vars

\* auth_tdx.py:85-92  the try block over the cache file
ReadCache ==
    /\ tok_pc = "read"
    /\ LET outcome == ReadCacheOutcome(tok_file, tok_now)
       IN  /\ tok_pc' = outcome.to
           /\ tok_error' = outcome.error
           /\ tok_ret' = IF outcome.to = "returned" THEN tok_file.access_token ELSE 0
    /\ UNCHANGED <<tok_clock, tok_file, tok_seen, tok_now, tok_res, tok_issued>>
    /\ UNCHANGED not_token_vars

\* auth_tdx.py:100-110  requests.post answered with a new token
RequestToken ==
    /\ tok_pc = "request"
    /\ tok_issued < MaxTokens
    /\ \E expires_in \in Lifetimes :
          tok_res' = [ok |-> TRUE, access_token |-> tok_issued + 1,
                      expires_in |-> expires_in]
    /\ tok_issued' = tok_issued + 1
    /\ tok_pc' = "save"
    /\ UNCHANGED <<tok_clock, tok_file, tok_seen, tok_now, tok_ret, tok_error>>
    /\ UNCHANGED not_token_vars

\* auth_tdx.py:100-108  the request times out, or its answer is not JSON
\* with access_token and expires_in
RequestTokenFails ==
    /\ tok_pc = "request"
    /\ tok_res' = NoAnswer
    /\ tok_error' = "RequestError"
    /\ tok_pc' = "raised"
    /\ UNCHANGED <<tok_clock, tok_file, tok_seen, tok_now, tok_ret, tok_issued>>
    /\ UNCHANGED not_token_vars

\* auth_tdx.py:109-114  expired_time = now_time + timedelta(expires_in);
\* the record is dumped to the cache file
SaveToken ==
    /\ tok_pc = "save"
    /\ tok_file' = TokenRecord(tok_res.access_token, tok_now + tok_res.expires_in)
    /\ tok_pc' = "return"
    /\ UNCHANGED <<tok_clock, tok_seen, tok_now, tok_res, tok_ret, tok_error, tok_issued>>
    /\ UNCHANGED not_token_vars

\* auth_tdx.py:116  return token
ReturnToken ==
    /\ tok_pc = "return"
    /\ tok_ret' = tok_res.access_token
    /\ tok_pc' = "returned"
    /\ UNCHANGED <<tok_clock, tok_file, tok_seen, tok_now, tok_res, tok_error, tok_issued>>
    /\ UNCHANGED not_token_vars

\* the caller goes on (or its next run comes) and may call again
NextCall ==
    /\ tok_pc \in {"returned", "raised"}
    /\ tok_pc' = "idle"
    /\ UNCHANGED <<tok_clock, tok_file, tok_seen, tok_now, tok_res, tok_ret, tok_error,
                   tok_issued>>
    /\ UNCHANGED not_token_vars

TokenNext ==
    \/ FindCacheFile
    \/ Tick
    \/ GetToken
    \/ ReadCache
    \/ RequestToken
    \/ RequestTokenFails
    \/ SaveToken
    \/ ReturnToken
    \/ NextCall

\* ---------------------------- load_stage.py: the same call made again
NoFirstRun == [taken |-> FALSE, args |-> NoArgs, after |-> [default_table |-> <<>>,
                                                          history_table |-> <<>>]]

TwiceInit == first_run = NoFirstRun

\* load_stage.py:8-10 and :81-89  a completed call is followed by the same
\* call: same function, same data, same load_behavior and tables.  As in
\* Call, only calls that keep the tables within the explored length start.
RunAgain ==
    /\ pc = "done"
    /\ ~first_run.taken
    /\ args.load_behavior = "append" =>
          Len(sink.default_table) + Len(args.data) <= MaxTable
    /\ args.load_behavior = "current+history" =>
          Len(sink.history_table) + Len(args.data) <= MaxTable
    /\ first_run' = [taken |-> TRUE, args |-> args, after |-> sink]
    /\ pc' = "check"
    /\ pre' = sink
    /\ txn' = sink
    /\ conn' = "none"
    /\ statements' = <<>>
    /\ error' = "none"
    /\ UNCHANGED <<sink, args, prior, snapshots>>
    /\ UNCHANGED not_twice_vars

\* one call and its repetition
TwiceNext ==
    \/ Call
    \/ CheckDataType
    \/ CheckGeometryType
    \/ Connect
    \/ Dispatch
    \/ Truncate
    \/ ToSqlDefault
    \/ ToSqlHistory
    \/ SinkError
    \/ Commit
    \/ Close
    \/ RunAgain

\* ------------------------- load_stage.py: two calls at the same time
Runs == {1, 2}

OtherRun(r) == 3 - r

\* the strategies that start with TRUNCATE TABLE default_table
TruncatingBehaviors == {"replace", "current+history"}

\* rows with the call that wrote them (0: present before both calls)
Tagged(r, data) == [i \in 1..Len(data) |-> <<r, data[i]>>]

Values(rows) == [i \in 1..Len(rows) |-> rows[i][2]]

Writers(rows) == {rows[i][1] : i \in 1..Len(rows)}

RowSet(rows) == {rows[i] : i \in 1..Len(rows)}

RECURSIVE Without(_, _)
Without(rows, removed) ==
    IF rows = <<>> THEN <<>>
    ELSE IF Head(rows) \in removed THEN Without(Tail(rows), removed)
    ELSE <<Head(rows)>> \o Without(Tail(rows), removed)

NoWork == [removed |-> {}, default_table |-> <<>>, history_table |-> <<>>]

NoRunArgs == [load_behavior |-> "none", data |-> <<>>]

\* the transaction of a call is open: engine.connect() done, neither
\* committed nor rolled back
InTransaction(r) ==
    run_pc[r] \in {"truncate", "to_sql_default", "to_sql_history", "commit"}

\* mutant: TRUNCATE never waits for another transaction
TruncateNeverWaits(holder, r) == FALSE

\* load_stage.py:52, :57 (and :146, :154)  TRUNCATE TABLE in PostgreSQL
\* takes an ACCESS EXCLUSIVE lock on the table, held until the transaction
\* ends; the statement waits while another transaction holds it
TruncateWaits(holder, r) == holder # 0 /\ holder # r

ConcInit ==
    /\ run_pc = [r \in Runs |-> "idle"]
    /\ run_args = [r \in Runs |-> NoRunArgs]
    /\ run_work = [r \in Runs |-> NoWork]
    /\ tables = [default_table |-> Tagged(0, sink.default_table),
                 history_table |-> Tagged(0, sink.history_table)]
    /\ lock_holder = 0
    /\ commit_order = <<>>
    /\ overlapped = FALSE

\* load_stage.py:8-10 and :81-89  a pipeline calls the executor with a
\* truncating strategy; the two calls carry different datasets
ConcCall(r) ==
    /\ run_pc[r] = "idle"
    /\ \E lb \in TruncatingBehaviors, data \in Datasets :
          /\ run_args[OtherRun(r)].load_behavior # "none" =>
                data # run_args[OtherRun(r)].data
          /\ run_args' = [run_args EXCEPT ![r] = [load_behavior |-> lb, data |-> data]]
    /\ run_pc' = [run_pc EXCEPT ![r] = "connect"]
    /\ UNCHANGED <<run_work, tables, lock_holder, commit_order, overlapped>>
    /\ UNCHANGED not_conc_vars

\* load_stage.py:47 and :139  conn = engine.connect()
ConcConnect(r) ==
    /\ run_pc[r] = "connect"
    /\ run_pc' = [run_pc EXCEPT ![r] = "truncate"]
    /\ overlapped' = (overlapped \/ lock_holder = OtherRun(r))
    /\ UNCHANGED <<run_args, run_work, tables, lock_holder, commit_order>>
    /\ UNCHANGED not_conc_vars

\* load_stage.py:52, :57 and :146, :154  conn.execute(TRUNCATE TABLE): the
\* committed rows the statement sees are gone once the call commits
ConcTruncate(r) ==
    /\ run_pc[r] = "truncate"
    /\ ~TruncateWaits(lock_holder, r)
    /\ lock_holder' = r
    /\ run_work' = [run_work EXCEPT ![r].removed = RowSet(tables.default_table),
                                    ![r].default_table = TruncateTable(@)]
    /\ run_pc' = [run_pc EXCEPT ![r] = "to_sql_default"]
    /\ UNCHANGED <<run_args, tables, commit_order, overlapped>>
    /\ UNCHANGED not_conc_vars

\* load_stage.py:54, :63 and :151, :165  to_sql(default_table, conn)
ConcToSqlDefault(r) ==
    /\ run_pc[r] = "to_sql_default"
    /\ run_work' = [run_work EXCEPT ![r].default_table =
                                         ToSqlAppend(@, Tagged(r, run_args[r].data))]
    /\ run_pc' = [run_pc EXCEPT ![r] = IF run_args[r].load_behavior = "current+history"
                                       THEN "to_sql_history" ELSE "commit"]
    /\ UNCHANGED <<run_args, tables, lock_holder, commit_order, overlapped>>
    /\ UNCHANGED not_conc_vars

\* load_stage.py:66 and :173  to_sql(history_table, conn)
ConcToSqlHistory(r) ==
    /\ run_pc[r] = "to_sql_history"
    /\ run_work' = [run_work EXCEPT ![r].history_table =
                                         ToSqlAppend(@, Tagged(r, run_args[r].data))]
    /\ run_pc' = [run_pc EXCEPT ![r] = "commit"]
    /\ UNCHANGED <<run_args, tables, lock_holder, commit_order, overlapped>>
    /\ UNCHANGED not_conc_vars

\* a statement fails in the sink (also: the wait for the lock is cancelled);
\* the exception ends the script and its transaction is rolled back
ConcSinkError(r) ==
    /\ run_pc[r] \in {"truncate", "to_sql_default", "to_sql_history"}
    /\ run_pc' = [run_pc EXCEPT ![r] = "raised"]
    /\ run_work' = [run_work EXCEPT ![r] = NoWork]
    /\ lock_holder' = IF lock_holder = r THEN 0 ELSE lock_holder
    /\ UNCHANGED <<run_args, tables, commit_order, overlapped>>
    /\ UNCHANGED not_conc_vars

\* load_stage.py:73 and :185  conn.commit(): the rows removed and the rows
\* inserted become the committed contents and the lock is released
ConcCommit(r) ==
    /\ run_pc[r] = "commit"
    /\ tables' = [default_table |-> ToSqlAppend(Without(tables.default_table,
                                                        run_work[r].removed),
                                                run_work[r].default_table),
                  history_table |-> ToSqlAppend(tables.history_table,
                                                run_work[r].history_table)]
    /\ lock_holder' = IF lock_holder = r THEN 0 ELSE lock_holder
    /\ commit_order' = Append(commit_order, r)
    /\ run_work' = [run_work EXCEPT ![r] = NoWork]
    /\ run_pc' = [run_pc EXCEPT ![r] = "close"]
    /\ UNCHANGED <<run_args, overlapped>>
    /\ UNCHANGED not_conc_vars

\* load_stage.py:74 and :186  conn.close() and return
ConcClose(r) ==
    /\ run_pc[r] = "close"
    /\ run_pc' = [run_pc EXCEPT ![r] = "done"]
    /\ UNCHANGED <<run_args, run_work, tables, lock_holder, commit_order, overlapped>>
    /\ UNCHANGED not_conc_vars

ConcNext ==
    \E r \in Runs :
        \/ ConcCall(r)
        \/ ConcConnect(r)
        \/ ConcTruncate(r)
        \/ ConcToSqlDefault(r)
        \/ ConcToSqlHistory(r)
        \/ ConcSinkError(r)
        \/ ConcCommit(r)
        \/ ConcClose(r)

\* ------------------------- building_permit/R0057.py: the XML parse loop
\* most permits in a document
MaxPermits == 2

\* most land units of a permit
MaxUnits == 2

\* texts of land unit elements
UnitTexts == {"u1", "u2"}

\* tag of the children of a permit's land unit column: the column's own
\* tag ("land") or another one ("lot")
ChildTags == {"land", "lot"}

\* a document: each permit has its number (a plain column) and a land unit
\* column with one child per land unit
Documents ==
    [child_tag : ChildTags,
     permits : SeqsUpTo([number : {"p1", "p2"}, units : SeqsUpTo(UnitTexts, MaxUnits)],
                        MaxPermits)]

NoDocument == [child_tag |-> "land", permits |-> <<>>]

\* R0057.py:39  temp = {}
EmptyDict == [number |-> "unset", land |-> "unset", lot |-> "unset"]

\* R0057.py:45-56  one pass of `for col in permit` for the land unit at
\* `index`: the land unit column's key gets col[index].text (line 47), then
\* every child of that column is written under the child's tag (lines
\* 51-54, the last child stays), and a plain column gets its text (line 56)
FillColumns(dict, permit, child_tag, index) ==
    LET last == permit.units[Len(permit.units)]
    IN  [number |-> permit.number,
         land |-> IF child_tag = "land" THEN last ELSE permit.units[index],
         lot |-> IF child_tag = "lot" THEN last ELSE dict.lot]

ParseInit ==
    /\ parse_pc = "start"
    /\ xml_root = NoDocument
    /\ permit_index = 0
    /\ index_of_land_unit = 0
    /\ heap = <<>>
    /\ temps = <<>>
    /\ raw_data = <<>>

\* R0057.py:35-37  tree = ET.parse(file_path); root = tree.getroot(); temps = []
ParseXml ==
    /\ parse_pc = "start"
    /\ xml_root' \in Documents
    /\ parse_pc' = "permits"
    /\ UNCHANGED <<permit_index, index_of_land_unit, heap, temps, raw_data>>
    /\ UNCHANGED not_parse_vars

\* R0057.py:38-42  the next permit: temp = {} creates one dict for it
NextPermit ==
    /\ parse_pc = "permits"
    /\ permit_index < Len(xml_root.permits)
    /\ permit_index' = permit_index + 1
    /\ heap' = Append(heap, EmptyDict)
    /\ index_of_land_unit' = 0
    /\ parse_pc' = "units"
    /\ UNCHANGED <<xml_root, temps, raw_data>>
    /\ UNCHANGED not_parse_vars

\* R0057.py:43-57  one turn of `for index_of_land_unit in range(...)`: the
\* permit's dict is filled in place and temps.append(temp) adds a reference
\* to that same dict
LandUnitRow ==
    /\ parse_pc = "units"
    /\ index_of_land_unit < Len(xml_root.permits[permit_index].units)
    /\ index_of_land_unit' = index_of_land_unit + 1
    /\ heap' = [heap EXCEPT ![Len(heap)] =
                   FillColumns(@, xml_root.permits[permit_index], xml_root.child_tag,
                               index_of_land_unit + 1)]
    /\ temps' = Append(temps, Len(heap))
    /\ UNCHANGED <<parse_pc, xml_root, permit_index, raw_data>>
    /\ UNCHANGED not_parse_vars

\* R0057.py:43  the range of land units is exhausted
EndPermit ==
    /\ parse_pc = "units"
    /\ index_of_land_unit = Len(xml_root.permits[permit_index].units)
    /\ parse_pc' = "permits"
    /\ UNCHANGED <<xml_root, permit_index, index_of_land_unit, heap, temps, raw_data>>
    /\ UNCHANGED not_parse_vars

\* R0057.py:58  raw_data = pd.DataFrame(temps): one row per list entry,
\* holding what the referenced dict holds now
BuildFrame ==
    /\ parse_pc = "permits"
    /\ permit_index = Len(xml_root.permits)
    /\ raw_data' = [j \in 1..Len(temps) |-> heap[temps[j]]]
    /\ parse_pc' = "framed"
    /\ UNCHANGED <<xml_root, permit_index, index_of_land_unit, heap, temps>>
    /\ UNCHANGED not_parse_vars

\* the script ends; the next run parses the next download
EndParse ==
    /\ parse_pc = "framed"
    /\ parse_pc' = "start"
    /\ xml_root' = NoDocument
    /\ permit_index' = 0
    /\ index_of_land_unit' = 0
    /\ heap' = <<>>
    /\ temps' = <<>>
    /\ raw_data' = <<>>
    /\ UNCHANGED not_parse_vars

ParseNext ==
    \/ ParseXml
    \/ NextPermit
    \/ LandUnitRow
    \/ EndPermit
    \/ BuildFrame
    \/ EndParse

\* ------------------------------------------------------- specifications
vars == <<load_vars, pipe_vars, geo_vars, fetch_vars, token_vars, twice_vars, conc_vars,
          parse_vars>>

Init ==
    /\ LoadInit /\ PipeInit /\ GeoInit /\ FetchInit /\ TokenInit /\ TwiceInit /\ ConcInit
    /\ ParseInit

\* the load executor, called with arbitrary arguments
Next == LoadNext

Spec == Init /\ [][Next]_vars

\* the pipeline scripts up to their call of the load executor
PipelineNext == PipeNext

PipelineSpec == Init /\ [][PipelineNext]_vars

\* the geometry converters, each called on one geometry
GeometrySpec == Init /\ [][GeoNext]_vars

\* the Extract block of the pipeline scripts, one request at a time
ExtractSpec == Init /\ [][FetchNext]_vars

\* TDXAuth.get_token, called again and again while time passes
AuthSpec == Init /\ [][TokenNext]_vars

\* the load executor called twice in succession with the same arguments
RepeatSpec == Init /\ [][TwiceNext]_vars

\* two calls of the load executor, their steps interleaved in any order
ConcurrentSpec == Init /\ [][ConcNext]_vars

\* the parse loop of the building_permit script
BuildingPermitSpec == Init /\ [][ParseNext]_vars

\* ------------------------------------------------------- claims C1 .. C9
\* load_stage.py:19  the documented values of load_behavior
Documented == {"append", "replace", "current+history"}

\* load_stage.py:20-25  the committed contents a call leaves, by the
\* docstring, when every step of its mode is applied
AllStepsApplied ==
    [default_table |-> IF args.load_behavior = "append"
                       THEN pre.default_table \o args.data ELSE args.data,
     history_table |-> IF args.load_behavior = "current+history"
                       THEN pre.history_table \o args.data ELSE pre.history_table]

\* a TRUNCATE or an insert has been sent on the connection
StatementIssued == statements # <<>>

\* C1: the truncate, the insert into default_table and the insert into
\* history_table are one unit of work: at every point of a run, completed or
\* interrupted by a sink error at any step, the committed tables are either
\* the pre-run contents or the contents with all steps applied, never an
\* emptied or half-populated default_table.
C1_UnitOfWork ==
    args.fn # "none" =>
        /\ sink = pre \/ (args.load_behavior \in Documented /\ sink = AllStepsApplied)
        /\ pc \in {"close", "done"} => sink = AllStepsApplied
        /\ pc # "close" /\ pc # "done" => sink = pre

\* C1 witness: a sink error interrupts a current+history run after the
\* TRUNCATE and the insert into a non-empty default_table were executed.
C1_Witness ==
    /\ pc = "raised" /\ error = "SinkError"
    /\ args.load_behavior = "current+history"
    /\ Len(statements) = 3
    /\ pre.default_table # <<>>
    /\ txn.default_table # pre.default_table
    /\ sink = pre

\* C2: a completed current+history run leaves default_table holding exactly
\* the rows of the dataset and history_table holding its prior rows followed
\* by the rows of the dataset.
C2_CurrentHistory ==
    (pc = "done" /\ args.load_behavior = "current+history") =>
        /\ sink.default_table = args.data
        /\ sink.history_table = pre.history_table \o args.data

\* C2 witness: N = 1 prior row in default_table, M = 1 in history_table, a
\* 2-row dataset, the geometry-aware function, run completed.
C2_Witness ==
    /\ pc = "done" /\ args.load_behavior = "current+history"
    /\ args.fn = "save_geodataframe_to_postgresql"
    /\ Len(pre.default_table) = 1 /\ Len(pre.history_table) = 1
    /\ Len(args.data) = 2
    /\ pre.default_table[1] # args.data[1]

\* C3: a completed replace run leaves default_table holding exactly the rows
\* of the dataset and history_table as it was.
C3_Replace ==
    (pc = "done" /\ args.load_behavior = "replace") =>
        /\ sink.default_table = args.data
        /\ sink.history_table = pre.history_table

\* C3 witness: the scenario of the specification, 3 prior rows and a 2-row
\* dataset, on a non-empty history_table.
C3_Witness ==
    /\ pc = "done" /\ args.load_behavior = "replace"
    /\ Len(pre.default_table) = 3 /\ Len(args.data) = 2
    /\ pre.history_table # <<>>

\* C4: a completed append run leaves default_table holding its prior rows
\* followed by the rows of the dataset and history_table unchanged, also when
\* a history_table name is passed.
C4_Append ==
    (pc = "done" /\ args.load_behavior = "append") =>
        /\ sink.default_table = pre.default_table \o args.data
        /\ sink.history_table = pre.history_table

\* C4 witness: an append of rows onto a non-empty table with a history_table
\* name supplied.
C4_Witness ==
    /\ pc = "done" /\ args.load_behavior = "append"
    /\ args.history_table = "history_table"
    /\ pre.default_table # <<>> /\ args.data # <<>>
    /\ pre.history_table # <<>>

\* C5: over any sequence of runs, failed ones included, history_table only
\* grows (every step keeps its committed rows as a prefix), and it holds its
\* initial rows followed by the dataset of every completed current+history
\* run.
C5_HistoryOnlyGrows ==
    /\ [][IsPrefixOf(sink.history_table, sink'.history_table)]_vars
    /\ [](sink.history_table = prior.history_table \o snapshots)

\* C5 witness: after a completed current+history run on a non-empty
\* history_table, a later run of that mode has failed in the sink at its
\* history insert, after default_table was rewritten in the transaction.
C5_Witness ==
    /\ pc = "raised" /\ error = "SinkError"
    /\ args.load_behavior = "current+history"
    /\ snapshots # <<>> /\ prior.history_table # <<>>
    /\ Len(statements) = 3
    /\ txn.default_table # sink.default_table

\* C6 (as claimed): a current+history call whose history_table is None or ''
\* fails with ValueError before any sink call and leaves both tables as they
\* were, in both functions.
C6_MissingHistoryFailsBeforeSink ==
    (args.load_behavior = "current+history" /\ args.history_table \in {"None", ""}) =>
        /\ ~StatementIssued
        /\ pc \notin {"truncate", "to_sql_default", "to_sql_history", "commit",
                      "close", "done"}
        /\ pc = "raised" => error = "ValueError"
        /\ sink = pre

\* C7: a load_behavior outside {append, replace, current+history} ends in
\* ValueError without any TRUNCATE or insert having been issued, and both
\* tables keep their pre-call contents.
C7_UnknownBehaviorRejected ==
    (args.fn # "none" /\ args.load_behavior \notin Documented) =>
        /\ ~StatementIssued
        /\ pc \in {"check", "connect", "dispatch", "raised"}
        /\ pc = "raised" => error = "ValueError"
        /\ sink = pre /\ txn = pre

\* C7 witness: the else branch of the load_behavior chain raised, on an open
\* connection, with rows in both tables.
C7_Witness ==
    /\ pc = "raised" /\ error = "ValueError" /\ conn = "open"
    /\ args.load_behavior = "upsert"
    /\ sink.default_table # <<>> /\ sink.history_table # <<>>

\* C8: save_geodataframe_to_postgresql with a geometry_type outside the
\* enumerated family fails with ValueError before a connection is opened,
\* whatever the load_behavior, and both tables are unchanged.
C8_GeometryTypeRejected ==
    (/\ args.fn = "save_geodataframe_to_postgresql"
     /\ args.geometry_type \notin {"Point", "LineString", "Polygon", "MultiPoint",
                                   "MultiLineString", "MultiPolygon", "LineStringZ",
                                   "MultiLineStringZ"}) =>
        /\ conn = "none" /\ ~StatementIssued
        /\ pc \in {"check", "raised"}
        /\ pc = "raised" => error = "ValueError"
        /\ sink = pre

\* C8 witness: geometry_type "Circle" rejected in a call whose load_behavior
\* is itself invalid.
C8_Witness ==
    /\ pc = "raised" /\ error = "ValueError" /\ conn = "none"
    /\ args.geometry_type = "Circle"
    /\ args.load_behavior = "upsert"
    /\ sink.default_table # <<>>

\* C9: save_dataframe_to_postgresql handed a GeoDataFrame, or columns named
\* wkb_geometry or geometry, fails with ValueError before a connection is
\* opened and before anything is written, whatever the load_behavior.
C9_GeometryDataRejected ==
    (/\ args.fn = "save_dataframe_to_postgresql"
     /\ \/ args.shape.type = "GeoDataFrame"
        \/ "wkb_geometry" \in args.shape.columns
        \/ "geometry" \in args.shape.columns) =>
        /\ conn = "none" /\ ~StatementIssued
        /\ pc \in {"check", "raised"}
        /\ pc = "raised" => error = "ValueError"
        /\ sink = pre

\* C9 witness: a plain DataFrame with a `geometry` column rejected in a
\* replace call.
C9_Witness ==
    /\ pc = "raised" /\ error = "ValueError" /\ conn = "none"
    /\ args.fn = "save_dataframe_to_postgresql"
    /\ args.shape.type = "DataFrame" /\ "geometry" \in args.shape.columns
    /\ args.load_behavior = "replace"

\* ------------------------------------------------------------ claim C10
\* the family a geometry_type names: the Z suffix only adds the elevation
DeclaredFamily(geometry_type) ==
    IF geometry_type = "MultiLineStringZ" THEN "MultiLineString"
    ELSE IF geometry_type = "LineStringZ" THEN "LineString"
    ELSE geometry_type

\* C10 (as claimed): in every pipeline that declares a geometry type, every
\* non-null geometry of the dataset handed to save_geodataframe_to_postgresql
\* belongs to the declared family, whatever mix of single and multi
\* geometries the source delivers.
C10_HandedGeometriesInDeclaredFamily ==
    stage = "handed" =>
        \A i \in 1..Len(handed.gdata) :
            handed.gdata[i] # NA =>
                handed.gdata[i].wkt.geom_type = DeclaredFamily(handed.geometry_type)


\* ---------------------------------------------------------------- C11
\* C11: convert_polygon_to_multipolygon returns, for a Polygon, the
\* MultiPolygon whose only member is that polygon, and returns a MultiPolygon
\* or a missing value as it is; applied to its own result it returns that
\* result, so applying it twice gives what applying it once gives.
C11_PolygonWrappedOnce ==
    geo_fn = "convert_polygon_to_multipolygon" =>
        /\ geo_pc \in {"returned", "reapplied"} =>
              /\ geo_out.raised = "none"
              /\ geo_in.geom_type = "Polygon" =>
                    /\ geo_out.value.geom_type = "MultiPolygon"
                    /\ geo_out.value.geoms = <<geo_in>>
              /\ geo_in.geom_type \in {"MultiPolygon", "NA"} => geo_out.value = geo_in
        /\ geo_pc = "reapplied" => geo_again = geo_out

C11_Witness ==
    /\ geo_pc = "reapplied"
    /\ geo_fn = "convert_polygon_to_multipolygon"
    /\ geo_in.geom_type = "Polygon"
    /\ geo_again.value.geoms = <<geo_in>>

\* ---------------------------------------------------------------- C12
\* C12: convert_linestring_to_multilinestring returns, for a LineString with
\* or without elevation, the MultiLineString whose only member is that line
\* with all its coordinates, and returns a MultiLineString or a missing value
\* as it is.
C12_LineWrappedOnce ==
    (geo_fn = "convert_linestring_to_multilinestring" /\ geo_pc \in {"returned", "reapplied"}) =>
        /\ geo_out.raised = "none"
        /\ geo_in.geom_type = "LineString" =>
              /\ geo_out.value.geom_type = "MultiLineString"
              /\ Len(geo_out.value.geoms) = 1
              /\ geo_out.value.geoms[1] = geo_in
        /\ geo_in.geom_type \in {"MultiLineString", "NA"} => geo_out.value = geo_in

C12_Witness ==
    /\ geo_pc = "returned"
    /\ geo_fn = "convert_linestring_to_multilinestring"
    /\ geo_in.geom_type = "LineString"
    /\ has_z(geo_in)
    /\ geo_out.value.geoms[1] = geo_in

\* ---------------------------------------------------------------- C13
\* the polygon with the same rings, the exterior and every interior ring,
\* each vertex keeping its x and y and losing its elevation
PlanarPolygon(ap) ==
    Polygon(FirstTwo(ap.exterior),
            [h \in 1..Len(ap.interiors) |-> FirstTwo(ap.interiors[h])])

PlanarImage(geo) ==
    IF geo.geom_type = "Polygon" THEN PlanarPolygon(geo)
    ELSE MultiPolygon([k \in 1..Len(geo.geoms) |-> PlanarPolygon(geo.geoms[k])])

IsPolygonal(geo) == geo.geom_type \in {"Polygon", "MultiPolygon"}

\* C13: for a Polygon or MultiPolygon with elevation, with or without
\* interior rings and with any number of members,
\* convert_3d_polygon_to_2d_polygon returns the geometry of the same family
\* whose rings have the input's x and y at every vertex and no elevation.
C13_PlanarCoordinatesKept ==
    (/\ geo_fn = "convert_3d_polygon_to_2d_polygon"
     /\ geo_pc \in {"returned", "reapplied"}
     /\ IsPolygonal(geo_in)
     /\ has_z(geo_in)) =>
        /\ geo_out.raised = "none"
        /\ geo_out.value = PlanarImage(geo_in)

\* ---------------------------------------------------------------- C14
\* C14: convert_3d_polygon_to_2d_polygon applied to a Polygon or MultiPolygon
\* without elevation returns it unchanged and raises nothing; so does the
\* function applied to its own result.
C14_PlanarInputUnchanged ==
    geo_fn = "convert_3d_polygon_to_2d_polygon" =>
        /\ (geo_pc \in {"returned", "reapplied"} /\ IsPolygonal(geo_in) /\ ~has_z(geo_in)) =>
              geo_out = Returned(geo_in)
        /\ geo_pc = "reapplied" => geo_again = geo_out

\* ---------------------------------------------------------------- C15
\* the pipelines that build points from x / y columns, the first with
\* is_add_xy_columns left True, the second passing False
PointPipelines == {"hospital", "ubike_station"}

\* the point transform of the running pipeline has been executed
PointsTransformed ==
    /\ pipeline \in PointPipelines
    /\ stage \in {"transformed", "failed", "handed"}

IsNumeric(v) == v \in NumericText

\* geometry.is_empty
IsEmptyPoint(geo) == geo.geom_type = "Point" /\ geo.coords = <<>>

NotReprojectable(geo) == IsNa(geo) \/ IsEmptyPoint(geo)

\* C16: in the frame returned by add_point_wkbgeometry_column_to_df and by
\* convert_geometry_to_wkbgeometry, every record whose geometry is missing or
\* empty has a null wkb_geometry, every other record has the WKT element of
\* its geometry in the target reference, and the transform does not fail.
C16_NullForUnprojectable ==
    (pipeline # "none" /\ stage \in {"transformed", "failed", "handed"} /\ raw # <<>>) =>
        /\ stage # "failed"
        /\ \A i \in 1..Len(gdata.geometry) :
              IF NotReprojectable(gdata.geometry[i])
              THEN gdata.wkb_geometry[i] = NA
              ELSE gdata.wkb_geometry[i] = WKTElement(gdata.geometry[i], TO_CRS)

\* ---------------------------------------------------------------- C17
\* a request that timed out or came back with a non-success status
FetchFailed(entry) == entry.response = Timeout \/ entry.response.status # 200

\* C17: in every pipeline run, a request that times out or returns a
\* non-success status is the last request of the run (no retry, no further
\* request) and the run has failed there: the Transform block is never
\* entered and nothing is written to the sink.
C17_FailedFetchEndsRun ==
    \A i \in 1..Len(fetch_log) :
        FetchFailed(fetch_log[i]) =>
            /\ i = Len(fetch_log)
            /\ fetch_pc = "failed"

\* ---------------------------------------------------------------- C18
\* the cache file does not hold a usable token at the time of the call: it
\* is absent, empty, not a pickle, a pickle without one of the keys, or a
\* record whose token has expired
NoUsableToken(file, now_time) ==
    \/ file.kind \in {"absent", "empty", "garbage"}
    \/ /\ file.kind = "pickle"
       /\ \/ file.keys # {"access_token", "expired_time"}
          \/ ~(now_time < file.expired_time)

\* C18: whatever the cache file holds when get_token is called - absent,
\* empty, corrupt, or an expired token - the call does not raise unless the
\* token request itself fails: it ends by returning the token it fetched,
\* and the cache file then holds that token.
C18_CacheStateHandled ==
    (/\ tok_pc \in {"returned", "raised"}
     /\ NoUsableToken(tok_seen, tok_now)
     /\ tok_error # "RequestError") =>
        /\ tok_pc = "returned"
        /\ tok_res.ok
        /\ tok_ret = tok_res.access_token
        /\ tok_file = TokenRecord(tok_res.access_token, tok_now + tok_res.expires_in)

\* ---------------------------------------------------------------- C19
\* a call has completed, was made again with the same arguments on the
\* tables it left, and the second call has completed too
RanTwice == first_run.taken /\ pc = "done"

\* C19 (as claimed): each of append, replace and current+history run twice
\* in succession with the same dataset leaves default_table and
\* history_table as a single run leaves them.
C19_EveryStrategyIdempotent ==
    RanTwice => sink = first_run.after

\* C19 (amended): of the three strategies only replace is idempotent on
\* both tables.  current+history run twice with the same dataset leaves
\* default_table as one run leaves it and history_table with the dataset
\* appended once more; append run twice leaves default_table with the
\* dataset appended once more and history_table untouched.
C19_SecondRunAppendsAgain ==
    RanTwice =>
        LET once == first_run.after
        IN  /\ args.load_behavior = "replace" => sink = once
            /\ args.load_behavior = "current+history" =>
                  /\ sink.default_table = once.default_table
                  /\ sink.history_table = once.history_table \o args.data
            /\ args.load_behavior = "append" =>
                  /\ sink.default_table = once.default_table \o args.data
                  /\ sink.history_table = once.history_table

\* C19 witness: a current+history call with rows was repeated and both
\* calls completed; history_table holds the dataset twice.
C19_Witness ==
    /\ RanTwice
    /\ args.load_behavior = "current+history"
    /\ args.data # <<>>
    /\ sink.default_table = first_run.after.default_table
    /\ sink.history_table # first_run.after.history_table

\* ---------------------------------------------------------------- C20
BothDone == \A r \in Runs : run_pc[r] = "done"

\* the rows history_table has received from a committed call
Snapshot(r) ==
    IF run_args[r].load_behavior = "current+history"
    THEN Tagged(r, run_args[r].data) ELSE <<>>

DocstringGeometryTypes == {"POINT", "LINESTRING", "POLYGON", "MULTIPOINT",
                           "MULTILINESTRING", "MULTIPOLYGON"}

\* C21: save_geodataframe_to_postgresql called with a geometry_type its
\* docstring lists as valid is not rejected by the geometry type check: it
\* never ends in an exception raised before the connection is opened.
C21_DocstringTypesAccepted ==
    (/\ args.fn = "save_geodataframe_to_postgresql"
     /\ args.geometry_type \in DocstringGeometryTypes) =>
        ~(pc = "raised" /\ conn = "none")

\* ---------------------------------------------------------------- C25
\* C25: when a call of save_dataframe_to_postgresql or
\* save_geodataframe_to_postgresql has returned or raised, no connection it
\* opened is still open, whichever path it took: commit, invalid
\* load_behavior, missing history_table, sink error.
C25_ConnectionClosedOnEveryPath ==
    pc \in {"done", "raised"} => conn # "open"

\* ---------------------------------------------------------------- C22
\* get_data_taipei_api has made its count request and every page request,
\* and each was answered with status 200 by a server whose data stayed the same
ApiTraversed ==
    /\ fetch_pc # "failed"
    /\ \E i \in 1..Len(fetch_log) : fetch_log[i].fn = "get_data_taipei_api"
    /\ \A i \in 1..Len(fetch_todo) : fetch_todo[i].fn # "page"
    /\ \A i \in 1..Len(fetch_log) : fetch_log[i].response.status = 200

\* the records 0 .. c-1 cut at every multiple of the page limit: pages at
\* offsets 0, 1000, ..., 1000 * floor(c / 1000)
PagesOf(c) ==
    [i \in 1..(c \div PageLimit + 1) |->
        [offset |-> (i - 1) * PageLimit,
         records |-> IF c - (i - 1) * PageLimit >= PageLimit THEN PageLimit
                     ELSE c - (i - 1) * PageLimit]]

RECURSIVE RecordsIn(_)
RecordsIn(pages) ==
    IF pages = <<>> THEN 0 ELSE Head(pages).records + RecordsIn(Tail(pages))

\* C22: for every count c the API reports, zero and exact multiples of 1000
\* included, get_data_taipei_api requests the pages at offsets 0, 1000, ...,
\* 1000 * floor(c / 1000) in that order, ends, and its result holds the c
\* records, each once: every page before the last is full, so each page
\* starts where the one before ends, and the pages add up to c.
C22_AllPagesTraversed ==
    ApiTraversed =>
        /\ fetch_res = PagesOf(fetch_count)
        /\ RecordsIn(fetch_res) = fetch_count
        /\ \A i \in 1..Len(fetch_res) - 1 :
              fetch_res[i].offset + fetch_res[i].records = fetch_res[i + 1].offset

\* C22 witness: the count is an exact multiple of 1000; the traversal made
\* a second request at offset 1000, which brought no record.
C22_Witness ==
    /\ ApiTraversed
    /\ fetch_count = PageLimit
    /\ Len(fetch_res) = 2
    /\ fetch_res[2] = [offset |-> PageLimit, records |-> 0]

\* ---------------------------------------------------------------- C23
\* the cache file can be read: it loads and holds both keys
Readable(file) ==
    file.kind = "pickle" /\ file.keys = {"access_token", "expired_time"}

\* a call of get_token has ended, and not by a failing token request
CallEnded == tok_pc \in {"returned", "raised"} /\ tok_error # "RequestError"

\* C23: over any sequence of get_token calls, a call returns the cached
\* token, with no token request and the cache file left as it was, exactly
\* when the file is readable and the time read at the start of the call is
\* strictly before the stored expired_time; in every other case it requests
\* a token, stores it with expired_time = that start time + expires_in and
\* returns it.  So no cached token is returned at or after its expiry.
C23_CachedExactlyWhenFresh ==
    CallEnded =>
        IF Readable(tok_seen) /\ tok_now < tok_seen.expired_time
        THEN /\ tok_pc = "returned"
             /\ tok_ret = tok_seen.access_token
             /\ ~tok_res.ok
             /\ tok_file = tok_seen
        ELSE /\ tok_pc = "returned"
             /\ tok_res.ok
             /\ tok_ret = tok_res.access_token
             /\ tok_file = TokenRecord(tok_res.access_token, tok_now + tok_res.expires_in)

\* ---------------------------------------------------------------- C24
\* the rows the comment at R0057.py:40-41 describes: per permit, one row
\* per land unit, the i-th with the i-th land unit in the land unit column
RECURSIVE RowsPerLandUnit(_)
RowsPerLandUnit(permits) ==
    IF permits = <<>> THEN <<>>
    ELSE [i \in 1..Len(Head(permits).units) |->
             [number |-> Head(permits).number, land |-> Head(permits).units[i]]]
         \o RowsPerLandUnit(Tail(permits))

\* C24: in the table the building_permit extraction builds, every permit
\* with k land units has k rows, and the i-th of them carries the i-th land
\* unit in the land unit column, so rows of one permit with different land
\* units differ there.
C24_OneRowPerLandUnit ==
    parse_pc = "framed" =>
        /\ Len(raw_data) = Len(RowsPerLandUnit(xml_root.permits))
        /\ \A j \in 1..Len(raw_data) :
              /\ raw_data[j].number = RowsPerLandUnit(xml_root.permits)[j].number
              /\ raw_data[j].land = RowsPerLandUnit(xml_root.permits)[j].land

=============================================================================
